---- MODULE Spec2Model ----
(***************************************************************************)
(* Transaction storage entity of the Lisk framework                        *)
(* (framework/src/components/storage/entities/transaction.js): the read    *)
(* operations get, getOne, count and isPersisted, the mutation guard, the  *)
(* filter sanitizer and the row materializer, over a store of raw rows.    *)
(*                                                                         *)
(* BaseEntity (mergeFilters, parseFilters, validateFilters, parseSort,     *)
(* defaultOptions), the adapter (executeFile) and the SQL statements are   *)
(* modelled by their interface.                                            *)
(***************************************************************************)
EXTENDS Integers, Sequences, FiniteSets, TLC

VARIABLES
    store,          \* the persisted table: sequence of [rowId, row], in insertion order
    defaultFilters, \* this.defaultFilters of the entity (fixed at construction)
    defaultOptions, \* this.defaultOptions of the entity (fixed at construction)
    call,           \* the operation called last and its arguments as supplied
    callerFilters,  \* the caller's filter objects as they are after the call
    sortArg,        \* the list handed to parseSort by the last call
    adapterLog,     \* the executeFile invocations made by the last call
    result,         \* what the last call returned or threw
    pager,          \* a caller reading consecutive pages through get
    fmtIn,          \* materializer input: [row, extended]
    fmtOut,         \* materializer output for fmtIn
    chain           \* the Chain module: its bootstrap position, scope and emitted events

vars == <<store, defaultFilters, defaultOptions, call, callerFilters, sortArg,
          adapterLog, result, pager, fmtIn, fmtOut, chain>>

(***************************************************************************)
(* Bounds                                                                  *)
(***************************************************************************)
\* largest number of rows the write path inserts into the store
MaxRows == 2
\* largest number of rows inserted while a caller pages through the store
MaxPagingRows == 3
\* longest signatures list of a raw row
MaxSigs == 2

(***************************************************************************)
(* JavaScript values.  Text is a sequence of code points, a Buffer a       *)
(* sequence of bytes.  undefined is the absence of a key.                  *)
(***************************************************************************)
Null == [t |-> "null", n |-> 0, s |-> <<>>, l |-> <<>>]
Num(k) == [t |-> "num", n |-> k, s |-> <<>>, l |-> <<>>]
Bool(b) == [t |-> "bool", n |-> IF b THEN 1 ELSE 0, s |-> <<>>, l |-> <<>>]
Str(cs) == [t |-> "str", n |-> 0, s |-> cs, l |-> <<>>]
Buf(bs) == [t |-> "buf", n |-> 0, s |-> bs, l |-> <<>>]
List(vs) == [t |-> "list", n |-> 0, s |-> <<>>, l |-> vs]

\* Boolean(v): null, 0, false and '' are falsy; objects (Buffer, Array) are truthy
Truthy(v) ==
    CASE v.t = "null" -> FALSE
      [] v.t = "num" -> v.n # 0
      [] v.t = "bool" -> v.n = 1
      [] v.t = "str" -> v.s # <<>>
      [] OTHER -> TRUE

\* UTF-8 encoding of text (code points below 2048)
RECURSIVE Utf8Encode(_)
Utf8Encode(cs) ==
    IF cs = <<>> THEN <<>>
    ELSE LET c == Head(cs)
         IN (IF c < 128 THEN <<c>>
             ELSE <<192 + (c \div 64), 128 + (c % 64)>>) \o Utf8Encode(Tail(cs))

\* UTF-8 decoding of bytes as Buffer.prototype.toString('utf8') does it:
\* an ill-formed byte becomes U+FFFD, decoding never throws
RECURSIVE Utf8Decode(_)
Utf8Decode(bs) ==
    IF bs = <<>> THEN <<>>
    ELSE LET b == Head(bs)
         IN IF b < 128 THEN <<b>> \o Utf8Decode(Tail(bs))
            ELSE IF /\ b >= 194 /\ b < 224 /\ Len(bs) >= 2
                    /\ bs[2] >= 128 /\ bs[2] < 192
                 THEN <<(b - 192) * 64 + (bs[2] - 128)>> \o Utf8Decode(Tail(Tail(bs)))
                 ELSE <<65533>> \o Utf8Decode(Tail(bs))

\* Buffer.from(value, 'utf8')
BufferFrom(v) ==
    IF v.t = "buf" THEN Buf(v.s) ELSE Buf(Utf8Encode(v.s))

\* value.toString('utf8'): a Buffer is decoded, a string is itself, a boolean
\* prints as text, a number takes the argument as a radix and throws RangeError
ToStringUtf8(v) ==
    CASE v.t = "buf" -> [ok |-> TRUE, value |-> Str(Utf8Decode(v.s))]
      [] v.t = "str" -> [ok |-> TRUE, value |-> v]
      [] v.t = "bool" -> [ok |-> TRUE,
                          value |-> Str(IF v.n = 1 THEN <<116, 114, 117, 101>>
                                        ELSE <<102, 97, 108, 115, 101>>)]
      [] OTHER -> [ok |-> FALSE, value |-> Null]

\* Object.assign({}, a, b)
Assign(a, b) ==
    [k \in (DOMAIN a) \cup (DOMAIN b) |-> IF k \in DOMAIN b THEN b[k] ELSE a[k]]

EmptyObject == [k \in {} |-> Null]

RECURSIVE SeqFilterTruthy(_)
SeqFilterTruthy(vs) ==
    IF vs = <<>> THEN <<>>
    ELSE (IF Truthy(Head(vs)) THEN <<Head(vs)>> ELSE <<>>) \o SeqFilterTruthy(Tail(vs))

(***************************************************************************)
(* The static payload map and the materializer                             *)
(***************************************************************************)
assetAttributesMap ==
    [ty \in 0..7 |->
        CASE ty = 0 -> <<"asset.data">>
          [] ty = 1 -> <<"asset.signature.publicKey">>
          [] ty = 2 -> <<"asset.delegate.username">>
          [] ty = 3 -> <<"asset.votes">>
          [] ty = 4 -> <<"asset.multisignature.min",
                         "asset.multisignature.lifetime",
                         "asset.multisignature.keysgroup">>
          [] ty = 5 -> <<"asset.dapp.type", "asset.dapp.name",
                         "asset.dapp.description", "asset.dapp.tags",
                         "asset.dapp.link", "asset.dapp.icon",
                         "asset.dapp.category">>
          [] ty = 6 -> <<"asset.inTransfer.dappId">>
          [] ty = 7 -> <<"asset.outTransfer.dappId",
                         "asset.outTransfer.transactionId">>]

Range(f) == {f[i] : i \in DOMAIN f}

\* the columns of a raw row: the fields of a BasicTransaction and the payload columns
BasicColumns ==
    {"id", "blockId", "height", "confirmations", "type", "timestamp",
     "senderPublicKey", "recipientPublicKey", "requesterPublicKey", "senderId",
     "recipientId", "amount", "fee", "signature", "signSignature", "signatures"}

PayloadColumns == UNION {Range(assetAttributesMap[ty]) : ty \in 0..7}

\* k.match(/^asset./) on the columns of a raw row
MatchesAssetPrefix(k) == k \in PayloadColumns

\* assetAttributesMap[transaction.type] || []
AssetAttributesNoNarrowing(cols) == PayloadColumns
AssetAttributes(cols) ==
    IF "type" \in DOMAIN cols /\ cols["type"].t = "num" /\ cols["type"].n \in 0..7
    THEN Range(assetAttributesMap[cols["type"].n])
    ELSE {}

\* row[assetKey] !== null && row[assetKey] !== undefined
IsSetTruthyOnly(row, k) == k \in DOMAIN row /\ Truthy(row[k])
IsSet(row, k) == k \in DOMAIN row /\ row[k] # Null

\* transaction.signatures.filter(Boolean), when transaction.signatures is truthy
FilterSignaturesKeepsAll(cols) == cols
FilterSignatures(cols) ==
    IF "signatures" \in DOMAIN cols /\ Truthy(cols["signatures"])
    THEN [cols EXCEPT !["signatures"] = List(SeqFilterTruthy(@.l))]
    ELSE cols

\* A materialized transaction: its top-level columns, whether it has an
\* asset container, and the values set at dotted paths below asset.
FormatTransactionResult(row, extended) ==
    LET cols == [k \in {c \in DOMAIN row : ~MatchesAssetPrefix(c)} |-> row[k]]
        paths == {p \in AssetAttributes(cols) : IsSet(row, p)}
        asset == [p \in paths |-> row[p]]
        hasAsset == extended \/ paths # {}
        decode == /\ "type" \in DOMAIN cols /\ cols["type"] = Num(0)
                  /\ hasAsset /\ "asset.data" \in paths
                  /\ Truthy(asset["asset.data"])
        conv == ToStringUtf8(asset["asset.data"])
    IN IF decode /\ ~conv.ok
       THEN [cols |-> FilterSignatures(cols), hasAsset |-> FALSE, asset |-> EmptyObject]
       ELSE [cols |-> FilterSignatures(cols),
             hasAsset |-> hasAsset,
             asset |-> IF decode THEN [asset EXCEPT !["asset.data"] = conv.value]
                       ELSE asset]

(***************************************************************************)
(* Filters: the registry built by the constructor, the sanitizer, and the  *)
(* BaseEntity filter compiler                                              *)
(***************************************************************************)
\* A Filter Set as the caller passes it: one mapping (isArray = FALSE, one
\* item) or an array of mappings.
FilterSet(isArray, items) == [isArray |-> isArray, items |-> items]

\* names under which the constructor registers a filter: every addField with
\* a filter type, and the three addFilter calls
RegisteredFilters ==
    {"id", "blockId", "blockHeight", "type", "timestamp", "senderPublicKey",
     "recipientPublicKey", "requesterPublicKey", "senderId", "recipientId",
     "amount", "fee", "data_like", "dapp_name", "dapp_link"}

FilterKeys(filters) == UNION {DOMAIN filters.items[i] : i \in 1..Len(filters.items)}

\* sanitizeFilterObject: a truthy data_like is replaced, in the object itself,
\* by its UTF-8 bytes
sanitizeFilterObject(filterObject) ==
    IF "data_like" \in DOMAIN filterObject /\ Truthy(filterObject["data_like"])
    THEN [filterObject EXCEPT !["data_like"] = BufferFrom(@)]
    ELSE filterObject

\* Transaction._sanitizeFilters: the value it returns.  The objects of the
\* returned Filter Set are the caller's own objects.
SanitizeFilters(filters) ==
    [isArray |-> filters.isArray,
     items |-> [i \in 1..Len(filters.items) |-> sanitizeFilterObject(filters.items[i])]]

\* BaseEntity.validateFilters(filters, atLeastOneRequired)
ValidateFilters(filters, atLeastOneRequired) ==
    LET keys == FilterKeys(filters)
    IN IF atLeastOneRequired /\ keys \cap RegisteredFilters = {}
       THEN "ValidationError"
       ELSE IF keys \ RegisteredFilters # {} THEN "ValidationError"
       ELSE "ok"

\* BaseEntity.mergeFilters: the default filters are laid over each mapping
MergeFilters(filters, defaults) ==
    [isArray |-> filters.isArray,
     items |-> [i \in 1..Len(filters.items) |-> Assign(filters.items[i], defaults)]]

\* the compiled predicate: '' or the prefix and the OR-ed groups with their
\* bound values
EmptyPredicate == [prefix |-> "", groups |-> <<>>]

\* BaseEntity.parseFilters(filters, {filterPrefix})
ParseFilters(merged, filterPrefix) ==
    IF FilterKeys(merged) = {} THEN EmptyPredicate
    ELSE [prefix |-> filterPrefix, groups |-> merged.items]

(***************************************************************************)
(* Options and sorting                                                     *)
(***************************************************************************)
\* an options object: the keys it has and their values
Opt(keys, limit, offset, sort, extended) ==
    [keys |-> keys, limit |-> limit, offset |-> offset, sort |-> sort,
     extended |-> extended]

\* values of the sort option, when present: a string or a list of strings
SortStr(s) == [kind |-> "str", str |-> s, list |-> <<>>]
SortList(l) == [kind |-> "list", str |-> "", list |-> l]
SortFalse == [kind |-> "false", str |-> "", list |-> <<>>]

SortTruthy(sort) == (sort.kind = "str" /\ sort.str # "") \/ sort.kind = "list"

\* default number of records of a page
DefaultLimit == 10

\* _.defaults({}, _.pick(options, keys), _.pick(this.defaultOptions, keys)):
\* a key the caller leaves undefined takes the entity's default
ParsedOptions(options, defaults) ==
    LET pick(k, o, d) == IF k \in options.keys THEN o ELSE d
    IN [keys |-> options.keys \cup defaults.keys,
        limit |-> pick("limit", options.limit, defaults.limit),
        offset |-> pick("offset", options.offset, defaults.offset),
        sort |-> pick("sort", options.sort, defaults.sort),
        extended |-> pick("extended", options.extended, defaults.extended)]

RECURSIVE DropEmptyStrings(_)
DropEmptyStrings(l) ==
    IF l = <<>> THEN <<>>
    ELSE (IF Head(l) = "" THEN <<>> ELSE <<Head(l)>>) \o DropEmptyStrings(Tail(l))

\* _.flatten([sort, 't_rowId:asc'])
FlattenWithTiebreak(sort) ==
    (IF sort.kind = "list" THEN sort.list ELSE <<sort.str>>) \o <<"t_rowId:asc">>

\* the sort list of _getResults: the requested keys, then the tiebreak
EffectiveSortNoTiebreak(parsedOptions) ==
    IF "sort" \in parsedOptions.keys /\ SortTruthy(parsedOptions.sort)
    THEN DropEmptyStrings(IF parsedOptions.sort.kind = "list"
                          THEN parsedOptions.sort.list
                          ELSE <<parsedOptions.sort.str>>)
    ELSE <<>>
EffectiveSortTiebreakFirst(parsedOptions) ==
    IF "sort" \in parsedOptions.keys /\ SortTruthy(parsedOptions.sort)
    THEN <<"t_rowId:asc">> \o EffectiveSortNoTiebreak(parsedOptions)
    ELSE <<"t_rowId:asc">>
EffectiveSort(parsedOptions) ==
    IF "sort" \in parsedOptions.keys /\ SortTruthy(parsedOptions.sort)
    THEN DropEmptyStrings(FlattenWithTiebreak(parsedOptions.sort))
    ELSE <<"t_rowId:asc">>

\* BaseEntity.parseSort: each 'field:direction' key becomes an ORDER BY term
ParseSortKey(key) ==
    CASE key = "amount:asc" -> [field |-> "amount", dir |-> "asc"]
      [] key = "amount:desc" -> [field |-> "amount", dir |-> "desc"]
      [] key = "t_rowId:asc" -> [field |-> "t_rowId", dir |-> "asc"]
      [] key = "t_rowId:desc" -> [field |-> "t_rowId", dir |-> "desc"]
ParseSort(sortList) == [i \in 1..Len(sortList) |-> ParseSortKey(sortList[i])]

(***************************************************************************)
(* The adapter: executeFile over the store                                 *)
(***************************************************************************)
sqlFiles == {"select", "selectExtended", "isPersisted", "count", "count_all"}

\* the column a registered filter compares
FilterColumn(key) ==
    CASE key = "blockHeight" -> "height"
      [] key = "data_like" -> "asset.data"
      [] key = "dapp_name" -> "asset.dapp.name"
      [] key = "dapp_link" -> "asset.dapp.link"
      [] OTHER -> key

\* the bytes a bound value is compared by
BytesOf(v) == IF v.t = "buf" THEN v.s ELSE Utf8Encode(v.s)

\* one condition of a group on one stored row; a LIKE pattern without
\* wildcards matches the equal byte sequence
ConditionHolds(row, key, value) ==
    LET col == FilterColumn(key)
    IN /\ col \in DOMAIN row
       /\ IF key = "data_like"
          THEN row[col].t = "buf" /\ row[col].s = BytesOf(value)
          ELSE row[col] = value

\* the stored rows a compiled predicate selects, as a set of store indices
Matching(rows, predicate) ==
    IF predicate = EmptyPredicate THEN DOMAIN rows
    ELSE {i \in DOMAIN rows :
            \E g \in DOMAIN predicate.groups :
                \A key \in DOMAIN predicate.groups[g] :
                    ConditionHolds(rows[i].row, key, predicate.groups[g][key])}

\* a statement whose predicate names something the registry has no condition
\* for is no valid statement
PredicateBroken(predicate) ==
    \E g \in DOMAIN predicate.groups :
        (DOMAIN predicate.groups[g]) \ RegisteredFilters # {}

SortField(entry, field) ==
    IF field = "t_rowId" THEN entry.rowId ELSE entry.row[field].n

\* entry a comes strictly before entry b under the ORDER BY terms
RECURSIVE Before(_, _, _)
Before(a, b, terms) ==
    IF terms = <<>> THEN FALSE
    ELSE LET va == SortField(a, Head(terms).field)
             vb == SortField(b, Head(terms).field)
         IN IF va = vb THEN Before(a, b, Tail(terms))
            ELSE IF Head(terms).dir = "asc" THEN va < vb ELSE va > vb

\* every order in which the store may return the selected rows: any
\* arrangement that no ORDER BY term contradicts
Orders(rows, selected, terms) ==
    {o \in [1..Cardinality(selected) -> selected] :
        /\ \A i, j \in DOMAIN o : i # j => o[i] # o[j]
        /\ \A i, j \in DOMAIN o : i < j => ~Before(rows[o[j]], rows[o[i]], terms)}

Min(a, b) == IF a < b THEN a ELSE b

\* LIMIT ${limit} OFFSET ${offset}
Page(order, limit, offset) ==
    SubSeq(order, offset + 1, Min(Len(order), offset + limit))

\* the columns a statement projects: the basic statement has no payload columns
Project(row, sql) ==
    IF sql = "selectExtended" THEN row
    ELSE [k \in (DOMAIN row) \ PayloadColumns |-> row[k]]

\* decimal text of a number, as the store returns a count
RECURSIVE ToDecimal(_)
ToDecimal(n) ==
    IF n < 10 THEN <<48 + n>> ELSE ToDecimal(n \div 10) \o <<48 + (n % 10)>>

\* unary plus on decimal text
RECURSIVE UnaryPlus(_)
UnaryPlus(digits) ==
    IF digits = <<>> THEN 0
    ELSE UnaryPlus(SubSeq(digits, 1, Len(digits) - 1)) * 10
         + (digits[Len(digits)] - 48)

NoData == [status |-> "none", error |-> "", rows |-> <<>>, count |-> <<>>,
           exists |-> FALSE]
Failure(error) == [NoData EXCEPT !.status = "error", !.error = error]

\* an optional number: undefined, or the number
Undefined == <<>>
Exactly(n) == <<n>>

\* adapter.executeFile(sql, params, {expectedResultCount}): every outcome the
\* store can give
ExecuteFile(rows, sql, params, expectedResultCount) ==
    IF PredicateBroken(params.parsedFilters) THEN {Failure("QueryError")}
    ELSE LET selected == Matching(rows, params.parsedFilters)
         IN CASE sql \in {"select", "selectExtended"} ->
                   {IF expectedResultCount = Exactly(1) /\ Len(Page(o, params.limit, params.offset)) # 1
                    THEN Failure("QueryResultError")
                    ELSE [NoData EXCEPT
                            !.status = "ok",
                            !.rows = [i \in 1..Len(Page(o, params.limit, params.offset)) |->
                                        Project(rows[Page(o, params.limit, params.offset)[i]].row,
                                                sql)]] :
                    o \in Orders(rows, selected, params.parsedSort)}
              [] sql = "count_all" ->
                   {[NoData EXCEPT !.status = "ok", !.count = ToDecimal(Len(rows))]}
              [] sql = "count" ->
                   {[NoData EXCEPT !.status = "ok",
                                   !.count = ToDecimal(Cardinality(selected))]}
              [] sql = "isPersisted" ->
                   {[NoData EXCEPT !.status = "ok", !.exists = selected # {}]}

\* one entry of the adapter log
AdapterCall(sql, params, expectedResultCount) ==
    [sql |-> sql, params |-> params, expectedResultCount |-> expectedResultCount]

NoParams == [limit |-> 0, offset |-> 0, parsedSort |-> <<>>,
             parsedFilters |-> EmptyPredicate]

(***************************************************************************)
(* The entity's operations, as functions from the arguments and the store  *)
(* to the set of possible outcomes.  An outcome is what the caller has     *)
(* afterwards: its filter objects, the list given to parseSort, the        *)
(* adapter calls made and the value returned or the error thrown.          *)
(***************************************************************************)
Outcome(filtersAfter, sortList, log, res) ==
    [callerFilters |-> filtersAfter, sortArg |-> sortList, adapterLog |-> log,
     result |-> res]

\* what get, getOne, count, isPersisted return on success
ReturnedRows(txs) == [kind |-> "sequence", status |-> "ok", error |-> "",
                      rows |-> txs, count |-> 0, exists |-> FALSE]
ReturnedRecord(tx) == [ReturnedRows(<<tx>>) EXCEPT !.kind = "record"]
ReturnedCount(n) == [ReturnedRows(<<>>) EXCEPT !.kind = "integer", !.count = n]
ReturnedBoolean(b) == [ReturnedRows(<<>>) EXCEPT !.kind = "boolean", !.exists = b]
Thrown(error) == [ReturnedRows(<<>>) EXCEPT !.kind = "none", !.status = "error",
                                            !.error = error]

\* the statement _getResults picks
SelectSql(parsedOptions) ==
    IF parsedOptions.extended THEN "selectExtended" ELSE "select"

\* the params _getResults binds
SelectParams(parsedOptions, parsedSort, parsedFilters) ==
    [limit |-> parsedOptions.limit, offset |-> parsedOptions.offset,
     parsedSort |-> parsedSort, parsedFilters |-> parsedFilters]

\* Transaction._getResults(filters, options, tx, expectedResultCount)
GetResults(rows, defFilters, defOptions, filters, options, expectedResultCount) ==
    LET sanitized == SanitizeFilters(filters)
        mergedFilters == MergeFilters(sanitized, defFilters)
        parsedFilters == ParseFilters(mergedFilters, "AND")
        parsedOptions == ParsedOptions(options, defOptions)
        sortList == EffectiveSort(parsedOptions)
        parsedSort == ParseSort(sortList)
        params == SelectParams(parsedOptions, parsedSort, parsedFilters)
        sql == SelectSql(parsedOptions)
        log == <<AdapterCall(sql, params, expectedResultCount)>>
    IN {Outcome(sanitized, sortList, log,
            IF data.status = "error" THEN Thrown(data.error)
            ELSE IF expectedResultCount = Exactly(1)
                 THEN ReturnedRecord(
                        FormatTransactionResult(data.rows[1], parsedOptions.extended))
                 ELSE ReturnedRows(
                        [i \in 1..Len(data.rows) |->
                            FormatTransactionResult(data.rows[i], parsedOptions.extended)])) :
        data \in ExecuteFile(rows, sql, params, expectedResultCount)}

\* the expectation getOne and get hand to _getResults
GetOneExpectedNone == Undefined
GetOneExpected == Exactly(1)
GetExpected == Undefined

\* the statement count picks
CountSqlAlwaysAll(parsedFilters) == "count_all"
CountSql(parsedFilters) ==
    IF parsedFilters = EmptyPredicate THEN "count_all" ELSE "count"

\* Transaction.count(filters, _options, tx)
CountResults(rows, defFilters, filters) ==
    LET sanitized == SanitizeFilters(filters)
        mergedFilters == MergeFilters(sanitized, defFilters)
        parsedFilters == ParseFilters(mergedFilters, "AND")
        params == [NoParams EXCEPT !.parsedFilters = parsedFilters]
        sql == CountSql(parsedFilters)
        log == <<AdapterCall(sql, params, Exactly(1))>>
    IN {Outcome(sanitized, <<>>, log,
            IF data.status = "error" THEN Thrown(data.error)
            ELSE ReturnedCount(UnaryPlus(data.count))) :
        data \in ExecuteFile(rows, sql, params, Exactly(1))}

\* Transaction.isPersisted(filters, _options, tx)
IsPersistedSkipsValidation(rows, defFilters, filters) ==
    LET mergedFilters == MergeFilters(filters, defFilters)
        parsedFilters == ParseFilters(mergedFilters, "WHERE")
        params == [NoParams EXCEPT !.parsedFilters = parsedFilters]
    IN {Outcome(filters, <<>>, <<AdapterCall("isPersisted", params, Exactly(1))>>,
            IF data.status = "error" THEN Thrown(data.error)
            ELSE ReturnedBoolean(data.exists)) :
        data \in ExecuteFile(rows, "isPersisted", params, Exactly(1))}
IsPersistedResults(rows, defFilters, filters) ==
    LET atLeastOneRequired == TRUE
        validation == ValidateFilters(filters, atLeastOneRequired)
        mergedFilters == MergeFilters(filters, defFilters)
        parsedFilters == ParseFilters(mergedFilters, "WHERE")
        params == [NoParams EXCEPT !.parsedFilters = parsedFilters]
        log == <<AdapterCall("isPersisted", params, Exactly(1))>>
    IN IF validation # "ok"
       THEN {Outcome(filters, <<>>, <<>>, Thrown(validation))}
       ELSE {Outcome(filters, <<>>, log,
                IF data.status = "error" THEN Thrown(data.error)
                ELSE ReturnedBoolean(data.exists)) :
             data \in ExecuteFile(rows, "isPersisted", params, Exactly(1))}

\* create, update, updateOne, delete: throw new NonSupportedOperationError()
CreateWritesThrough(data) ==
    {Outcome(data, <<>>, <<AdapterCall("count_all", NoParams, Undefined)>>,
             ReturnedCount(0))}
CreateResults(data) ==
    {Outcome(data, <<>>, <<>>, Thrown("NonSupportedOperationError"))}
UpdateResults(data) ==
    {Outcome(data, <<>>, <<>>, Thrown("NonSupportedOperationError"))}
UpdateOneResults(data) ==
    {Outcome(data, <<>>, <<>>, Thrown("NonSupportedOperationError"))}
DeleteResults(data) ==
    {Outcome(data, <<>>, <<>>, Thrown("NonSupportedOperationError"))}

(***************************************************************************)
(* Inputs                                                                  *)
(***************************************************************************)
TextA == <<97>>
TextEAcute == <<233>>

\* filter mappings callers pass; foo is no registered filter
FilterObjects ==
    {EmptyObject,
     "amount" :> Num(1),
     "data_like" :> Str(TextEAcute),
     "foo" :> Num(1)}

FilterSetChoices ==
    {FilterSet(FALSE, <<o>>) : o \in FilterObjects}
    \cup {FilterSet(TRUE, <<"amount" :> Num(2), "data_like" :> Str(TextA)>>),
          FilterSet(TRUE, <<"data_like" :> Str(TextA), "foo" :> Num(1)>>)}

NoOptions == Opt({}, 0, 0, SortFalse, FALSE)

OptionChoices ==
    {NoOptions,
     Opt({"limit", "offset"}, 1, 1, SortFalse, FALSE),
     Opt({"sort", "extended"}, 0, 0, SortStr("amount:desc"), TRUE),
     Opt({"sort"}, 0, 0, SortList(<<"amount:asc", "", "t_rowId:desc">>), FALSE),
     Opt({"sort", "extended"}, 0, 0, SortStr(""), TRUE),
     Opt({"sort"}, 0, 0, SortList(<<>>), FALSE)}

\* the entity as constructed: its default filters and default options
DefaultFilterChoices == {EmptyObject, "type" :> Num(0)}
DefaultOptionChoices ==
    {Opt({"limit", "offset", "sort", "extended"}, DefaultLimit, 0, sort, FALSE) :
        sort \in {SortFalse, SortStr("amount:asc")}}

\* rows the write path persists (all columns, as the extended statement shows them)
StoredRows ==
    {("type" :> Num(0)) @@ ("amount" :> Num(1)) @@ ("asset.data" :> Buf(<<195, 169>>))
        @@ ("signatures" :> List(<<Str(TextA), Str(<<>>)>>)),
     ("type" :> Num(2)) @@ ("amount" :> Num(2)) @@ ("asset.data" :> Null)
        @@ ("asset.delegate.username" :> Str(TextA)) @@ ("signatures" :> Null)}

\* arguments callers pass to create, update, updateOne and delete
MutationData == {FilterSet(FALSE, <<EmptyObject>>), FilterSet(FALSE, <<"amount" :> Num(1)>>)}

(***************************************************************************)
(* The entity under calls: state and actions                               *)
(***************************************************************************)
NoCall == [op |-> "none", filters |-> FilterSet(FALSE, <<EmptyObject>>),
           options |-> NoOptions]
Called(op, filters, options) == [op |-> op, filters |-> filters, options |-> options]

PagerIdle == [phase |-> "idle", limit |-> 0, sort |-> SortFalse, offset |-> 0,
              snapshot |-> {}, seen |-> <<>>, inserted |-> 0]
NoRow == [row |-> EmptyObject, extended |-> FALSE]
NotFormatted == [done |-> FALSE, cols |-> EmptyObject, hasAsset |-> FALSE,
                 asset |-> EmptyObject]

\* new Chain(channel, options): logger and scope are null; options has a
\* genesis block or not
ChainNew(genesisBlock) ==
    [pc |-> "new", genesisBlock |-> genesisBlock, logger |-> "null",
     dbLogger |-> "null", lastCommit |-> "", ran |-> <<>>, failedAt |-> "",
     bindSent |-> FALSE, scope |-> "null", cleanupEvents |-> <<>>,
     cleanup |-> "none", webSocket |-> "none"]

Init ==
    /\ store = <<>>
    /\ defaultFilters \in DefaultFilterChoices
    /\ defaultOptions \in DefaultOptionChoices
    /\ call = NoCall
    /\ callerFilters = NoCall.filters
    /\ sortArg = <<>>
    /\ adapterLog = <<>>
    /\ result = Thrown("")
    /\ pager = PagerIdle
    /\ fmtIn = NoRow
    /\ fmtOut = NotFormatted
    /\ chain = ChainNew(TRUE)

\* a call returns: the caller observes its outcome
Observed(op, filters, options, outcome) ==
    /\ call' = Called(op, filters, options)
    /\ callerFilters' = outcome.callerFilters
    /\ sortArg' = outcome.sortArg
    /\ adapterLog' = outcome.adapterLog
    /\ result' = outcome.result

Returns(op, filters, options, outcome) ==
    /\ Observed(op, filters, options, outcome)
    /\ UNCHANGED <<store, defaultFilters, defaultOptions, pager, fmtIn, fmtOut, chain>>

\* the consensus-gated write path persists one more row
NextRow(rows, template) ==
    [rowId |-> Len(rows) + 1,
     row |-> template @@ ("id" :> Str(ToDecimal(Len(rows) + 1)))]

InsertRow ==
    /\ Len(store) < MaxRows
    /\ \E template \in StoredRows : store' = Append(store, NextRow(store, template))
    /\ call' = Called("insertRow", NoCall.filters, NoOptions)
    /\ callerFilters' = NoCall.filters
    /\ sortArg' = <<>>
    /\ adapterLog' = <<>>
    /\ result' = Thrown("")
    /\ UNCHANGED <<defaultFilters, defaultOptions, pager, fmtIn, fmtOut, chain>>

Get ==
    \E filters \in FilterSetChoices, options \in OptionChoices :
        \E outcome \in GetResults(store, defaultFilters, defaultOptions, filters,
                                  options, GetExpected) :
            Returns("get", filters, options, outcome)

GetOne ==
    \E filters \in FilterSetChoices, options \in OptionChoices :
        \E outcome \in GetResults(store, defaultFilters, defaultOptions, filters,
                                  options, GetOneExpected) :
            Returns("getOne", filters, options, outcome)

Count ==
    \E filters \in FilterSetChoices :
        \E outcome \in CountResults(store, defaultFilters, filters) :
            Returns("count", filters, NoOptions, outcome)

IsPersisted ==
    \E filters \in FilterSetChoices :
        \E outcome \in IsPersistedResults(store, defaultFilters, filters) :
            Returns("isPersisted", filters, NoOptions, outcome)

Create ==
    \E data \in MutationData :
        \E outcome \in CreateResults(data) : Returns("create", data, NoOptions, outcome)

Update ==
    \E data \in MutationData :
        \E outcome \in UpdateResults(data) : Returns("update", data, NoOptions, outcome)

UpdateOne ==
    \E data \in MutationData :
        \E outcome \in UpdateOneResults(data) :
            Returns("updateOne", data, NoOptions, outcome)

Delete ==
    \E data \in MutationData :
        \E outcome \in DeleteResults(data) : Returns("delete", data, NoOptions, outcome)

Next ==
    \/ InsertRow
    \/ Get
    \/ GetOne
    \/ Count
    \/ IsPersisted
    \/ Create
    \/ Update
    \/ UpdateOne
    \/ Delete

Spec == Init /\ [][Next]_vars

(***************************************************************************)
(* Properties of the entity under calls                                    *)
(***************************************************************************)
MutationOps == {"create", "update", "updateOne", "delete"}
ReadOps == {"get", "getOne", "count", "isPersisted"}

\* the Filter Set of the last call names registered filters only
CallFiltersValid == FilterKeys(call.filters) \subseteq RegisteredFilters

\* the predicate the Filter Set of the last call stands for, with the entity's
\* default filters
CallPredicate ==
    ParseFilters(MergeFilters(SanitizeFilters(call.filters), defaultFilters), "AND")

\* the number of stored rows the Filter Set of the last call matches
CallMatches == Cardinality(Matching(store, CallPredicate))

CallParsedOptions == ParsedOptions(call.options, defaultOptions)

Max(a, b) == IF a > b THEN a ELSE b

\* the number of rows the select statement of the last call yields: the
\* matching rows left after OFFSET, at most LIMIT of them
CallYields ==
    Min(CallParsedOptions.limit, Max(0, CallMatches - CallParsedOptions.offset))

\* C1: create, update, updateOne and delete fail with
\* NonSupportedOperationError for every input and in every state of the
\* entity, and none of them makes an adapter call.
C1_MutationsAlwaysFail ==
    call.op \in MutationOps =>
        /\ result.status = "error"
        /\ result.error = "NonSupportedOperationError"
        /\ adapterLog = <<>>

C1_Witness ==
    /\ call.op = "create"
    /\ call.filters = FilterSet(FALSE, <<EmptyObject>>)
    /\ store # <<>>
    /\ result.error = "NonSupportedOperationError"

\* C2: every read operation (get, getOne, count, isPersisted) given a Filter
\* Set with a key that is no registered filter is rejected with a validation
\* error before any adapter call is made.
C2_UnknownKeyRejectedBeforeAdapter ==
    (call.op \in ReadOps /\ ~CallFiltersValid) =>
        /\ result.status = "error"
        /\ result.error = "ValidationError"
        /\ adapterLog = <<>>

\* C3: isPersisted with an empty Filter Set, or one with no registered key,
\* fails validation and the adapter is never invoked, whatever the entity's
\* default filters are: validation comes before merge, compile and executeFile.
C3_ExistsRequiresFilter ==
    (call.op = "isPersisted" /\ FilterKeys(call.filters) \cap RegisteredFilters = {}) =>
        /\ result.status = "error"
        /\ result.error = "ValidationError"
        /\ adapterLog = <<>>

C3_Witness ==
    /\ call.op = "isPersisted"
    /\ call.filters = FilterSet(FALSE, <<EmptyObject>>)
    /\ defaultFilters # EmptyObject
    /\ store # <<>>
    /\ result.error = "ValidationError"
    /\ adapterLog = <<>>

\* what C4 says of the cardinality expectation get and getOne pass, and of get
C4_Expectation ==
    /\ call.op = "getOne" =>
          Len(adapterLog) = 1 /\ adapterLog[1].expectedResultCount = Exactly(1)
    /\ call.op = "get" =>
          Len(adapterLog) = 1 /\ adapterLog[1].expectedResultCount = Undefined
    /\ (call.op = "get" /\ CallFiltersValid) =>
          /\ result.status = "ok"
          /\ result.kind = "sequence"
          /\ CallMatches = 0 => result.rows = <<>>

\* C4 as stated: getOne passes the expectation 1 and get none; get with zero
\* matching rows returns the empty sequence without error; getOne fails with
\* the cardinality error when zero or two-or-more rows match the filters and
\* returns a single record when exactly one matches.
C4_GetOneByMatchingRows ==
    /\ C4_Expectation
    /\ (call.op = "getOne" /\ CallFiltersValid) =>
          IF CallMatches = 1
          THEN result.status = "ok" /\ result.kind = "record" /\ Len(result.rows) = 1
          ELSE result.status = "error" /\ result.error = "QueryResultError"

\* C4 amended: the rows that count for getOne are the rows the statement
\* yields, that is the matching rows left after the offset and the limit the
\* call binds; get returns that many records and never fails.
C4_GetOneByYieldedRows ==
    /\ C4_Expectation
    /\ (call.op = "get" /\ CallFiltersValid) => Len(result.rows) = CallYields
    /\ (call.op = "getOne" /\ CallFiltersValid) =>
          IF CallYields = 1
          THEN result.status = "ok" /\ result.kind = "record" /\ Len(result.rows) = 1
          ELSE result.status = "error" /\ result.error = "QueryResultError"

C4_Witness ==
    /\ call.op = "getOne"
    /\ CallFiltersValid
    /\ CallMatches = 0
    /\ store # <<>>
    /\ result.error = "QueryResultError"

RequestedSortKeys ==
    LET sort == CallParsedOptions.sort
    IN IF "sort" \notin CallParsedOptions.keys THEN <<>>
       ELSE IF sort.kind = "list" THEN DropEmptyStrings(sort.list)
       ELSE IF sort.kind = "str" /\ sort.str # "" THEN <<sort.str>>
       ELSE <<>>

\* C6: for every get and getOne, whatever the caller's and the entity's
\* default sort option, the list handed to parseSort is non-empty, ends with
\* 't_rowId:asc', and has the requested sort keys before it in their order;
\* with no sort requested it is exactly <<'t_rowId:asc'>>.
C6_TiebreakLast ==
    call.op \in {"get", "getOne"} =>
        /\ sortArg # <<>>
        /\ sortArg[Len(sortArg)] = "t_rowId:asc"
        /\ SubSeq(sortArg, 1, Len(sortArg) - 1) = RequestedSortKeys
        /\ RequestedSortKeys = <<>> => sortArg = <<"t_rowId:asc">>
        /\ Len(adapterLog) = 1
        /\ adapterLog[1].params.parsedSort = ParseSort(sortArg)

C6_Witness ==
    /\ call.op = "get"
    /\ call.options.sort = SortList(<<"amount:asc", "", "t_rowId:desc">>)
    /\ sortArg = <<"amount:asc", "t_rowId:desc", "t_rowId:asc">>

\* C8: get, getOne and count have no side effect beyond the read: after the
\* call every filter object the caller supplied holds the same keys and
\* values as before.
C8_CallerFiltersUntouched ==
    call.op \in {"get", "getOne", "count"} => callerFilters = call.filters

(***************************************************************************)
(* A caller paging through get while the write path inserts rows           *)
(***************************************************************************)
PageLimits == {1, 2}
PageSorts == {SortFalse, SortStr("amount:asc"), SortStr("amount:desc")}

\* the options of one page read: the same limit and sort, the next offset
PageOptions(limit, offset, sort) ==
    Opt(IF sort = SortFalse THEN {"limit", "offset"} ELSE {"limit", "offset", "sort"},
        limit, offset, sort, FALSE)

AllRows == FilterSet(FALSE, <<EmptyObject>>)

\* the ids of the records a get returned
ReturnedIds(res) == [i \in 1..Len(res.rows) |-> res.rows[i].cols["id"]]

InitPaging ==
    /\ Init
    /\ defaultFilters = EmptyObject

\* one page is read through get and the caller moves to the next offset;
\* an empty page ends the reading
ReadPage(limit, offset, sort, snapshot, seen, inserted) ==
    \E outcome \in GetResults(store, defaultFilters, defaultOptions, AllRows,
                              PageOptions(limit, offset, sort), GetExpected) :
        /\ Observed("get", AllRows, PageOptions(limit, offset, sort), outcome)
        /\ pager' = [phase |-> IF outcome.result.rows = <<>> THEN "done" ELSE "reading",
                     limit |-> limit,
                     sort |-> sort,
                     offset |-> offset + limit,
                     snapshot |-> snapshot,
                     seen |-> seen \o ReturnedIds(outcome.result),
                     inserted |-> inserted]
        /\ UNCHANGED <<store, defaultFilters, defaultOptions, fmtIn, fmtOut, chain>>

StartPaging ==
    /\ pager.phase = "idle"
    /\ \E limit \in PageLimits, sort \in PageSorts :
          ReadPage(limit, 0, sort, {store[i].row["id"] : i \in DOMAIN store}, <<>>, 0)

NextPage ==
    /\ pager.phase = "reading"
    /\ ReadPage(pager.limit, pager.offset, pager.sort, pager.snapshot, pager.seen,
                pager.inserted)

\* another caller's write lands between two page reads
PagingInsertRow ==
    /\ Len(store) < MaxPagingRows
    /\ \E template \in StoredRows : store' = Append(store, NextRow(store, template))
    /\ pager' = IF pager.phase = "reading"
                THEN [pager EXCEPT !.inserted = @ + 1]
                ELSE pager
    /\ UNCHANGED <<defaultFilters, defaultOptions, call, callerFilters, sortArg,
                   adapterLog, result, fmtIn, fmtOut, chain>>

NextPaging ==
    \/ PagingInsertRow
    \/ StartPaging
    \/ NextPage

SpecPaging == InitPaging /\ [][NextPaging]_vars

Occurrences(seq, x) == Cardinality({i \in DOMAIN seq : seq[i] = x})

\* C7 as stated: with rows inserted between the page reads, every row that
\* was in the store before the first page read is returned on exactly one
\* page, none repeated and none skipped.
C7_PagesStableUnderInserts ==
    pager.phase = "done" =>
        \A id \in pager.snapshot : Occurrences(pager.seen, id) = 1

\* C7 amended: every row that was in the store before the first page read is
\* returned on at least one page (none skipped), and on exactly one page when
\* no row is inserted during the reads or when no sort key is requested (the
\* tiebreak alone orders the rows, and new rows come last); a row inserted
\* ahead of the read position shifts an earlier row onto the next page, where
\* it is returned again.
C7_PagesNeverSkip ==
    /\ pager.phase = "done" =>
          \A id \in pager.snapshot : Occurrences(pager.seen, id) >= 1
    /\ (pager.phase # "idle" /\ (pager.inserted = 0 \/ sortArg = <<"t_rowId:asc">>)) =>
          \A id \in pager.snapshot : Occurrences(pager.seen, id) <= 1

C7_Witness ==
    /\ pager.phase = "done"
    /\ pager.inserted > 0
    /\ pager.sort # SortFalse
    /\ \E i, j \in DOMAIN store :
          /\ i # j
          /\ store[i].row["id"] \in pager.snapshot
          /\ store[j].row["id"] \in pager.snapshot
          /\ store[i].row["amount"] = store[j].row["amount"]
    /\ \A id \in pager.snapshot : Occurrences(pager.seen, id) = 1

(***************************************************************************)
(* The materializer on raw rows                                            *)
(***************************************************************************)
\* marks a column the row does not have
Absent == [t |-> "absent", n |-> 0, s |-> <<>>, l |-> <<>>]

RawRow(type, data, username, min, signatures) ==
    LET full == ("type" :> type) @@ ("amount" :> Num(1)) @@ ("asset.data" :> data)
                @@ ("asset.delegate.username" :> username)
                @@ ("asset.multisignature.min" :> min)
                @@ ("signatures" :> signatures)
    IN [k \in {c \in DOMAIN full : full[c] # Absent} |-> full[k]]

TypeValues == {Num(0), Num(1), Num(2), Num(4), Num(8)}
DataValues ==
    {Absent, Null, Num(0), Bool(FALSE), Str(<<>>), Str(TextA), Buf(<<>>),
     Buf(<<195, 169>>), Buf(<<255>>)}
UsernameValues == {Absent, Null, Str(<<>>), Str(TextA)}
MinValues == {Absent, Null, Num(0), Num(2)}
SignatureEntries == {Null, Str(<<>>), Str(TextA)}
SignaturesValues ==
    {Absent, Null}
    \cup {List(l) : l \in UNION {[1..k -> SignatureEntries] : k \in 0..MaxSigs}}

RawRows ==
    {RawRow(ty, d, u, m, sg) :
        ty \in TypeValues, d \in DataValues, u \in UsernameValues, m \in MinValues,
        sg \in SignaturesValues}

InitFormat ==
    /\ store = <<>>
    /\ defaultFilters = EmptyObject
    /\ defaultOptions \in {o \in DefaultOptionChoices : o.sort = SortFalse}
    /\ call = NoCall
    /\ callerFilters = NoCall.filters
    /\ sortArg = <<>>
    /\ adapterLog = <<>>
    /\ result = Thrown("")
    /\ pager = PagerIdle
    /\ fmtIn \in [row : RawRows, extended : BOOLEAN]
    /\ fmtOut = NotFormatted
    /\ chain = ChainNew(TRUE)

\* Transaction._formatTransactionResult(row, extended) is applied to the row
Materialize ==
    /\ ~fmtOut.done
    /\ fmtOut' = [NotFormatted EXCEPT
                    !.done = TRUE,
                    !.cols = FormatTransactionResult(fmtIn.row, fmtIn.extended).cols,
                    !.hasAsset = FormatTransactionResult(fmtIn.row, fmtIn.extended).hasAsset,
                    !.asset = FormatTransactionResult(fmtIn.row, fmtIn.extended).asset]
    /\ UNCHANGED <<store, defaultFilters, defaultOptions, call, callerFilters, sortArg,
                   adapterLog, result, pager, fmtIn, chain>>

NextFormat == Materialize

SpecFormat == InitFormat /\ [][NextFormat]_vars

\* the payload paths the static map registers for the discriminant of the row
RegisteredPaths(row) ==
    IF "type" \in DOMAIN row /\ row["type"].t = "num" /\ row["type"].n \in 0..7
    THEN Range(assetAttributesMap[row["type"].n])
    ELSE {}

\* the materialized record has payload values only at paths registered for
\* the row's own discriminant, and no payload column at its top level
PayloadNarrowed ==
    /\ DOMAIN fmtOut.asset \subseteq RegisteredPaths(fmtIn.row)
    /\ DOMAIN fmtOut.cols = (DOMAIN fmtIn.row) \ PayloadColumns
    /\ DOMAIN fmtOut.asset # {} => fmtOut.hasAsset

\* C9 as stated: payload values appear only at the paths registered for the
\* row's own discriminant, and every non-payload column is copied unchanged.
C9_NarrowedAndAllCopied ==
    fmtOut.done =>
        /\ PayloadNarrowed
        /\ \A k \in (DOMAIN fmtIn.row) \ PayloadColumns : fmtOut.cols[k] = fmtIn.row[k]

\* C9 amended: payload values appear only at the paths registered for the
\* row's own discriminant (none for a type outside 0..7), and every
\* non-payload column other than signatures is copied unchanged; signatures
\* is kept as a column, with its falsy entries removed when it is a list.
C9_NarrowedAndCopied ==
    fmtOut.done =>
        /\ PayloadNarrowed
        /\ \A k \in (DOMAIN fmtIn.row) \ (PayloadColumns \cup {"signatures"}) :
              fmtOut.cols[k] = fmtIn.row[k]

C9_Witness ==
    /\ fmtOut.done
    /\ fmtIn.row["type"] = Num(2)
    /\ "asset.data" \in DOMAIN fmtIn.row
    /\ fmtIn.row["asset.data"] = Buf(<<195, 169>>)
    /\ "asset.multisignature.min" \in DOMAIN fmtIn.row
    /\ fmtIn.row["asset.multisignature.min"] = Num(2)
    /\ DOMAIN fmtOut.asset = {"asset.delegate.username"}

RECURSIVE Utf8WellFormed(_)
Utf8WellFormed(bs) ==
    IF bs = <<>> THEN TRUE
    ELSE IF Head(bs) < 128 THEN Utf8WellFormed(Tail(bs))
    ELSE /\ Head(bs) >= 194 /\ Head(bs) < 224 /\ Len(bs) >= 2
         /\ bs[2] >= 128 /\ bs[2] < 192
         /\ Utf8WellFormed(Tail(Tail(bs)))

\* the row has discriminant 0 and payload bytes that are no UTF-8 text
UndecodablePayload(row) ==
    /\ "type" \in DOMAIN row /\ row["type"] = Num(0)
    /\ "asset.data" \in DOMAIN row
    /\ row["asset.data"].t = "buf"
    /\ ~Utf8WellFormed(row["asset.data"].s)

\* C11: a row with discriminant 0 whose payload bytes (asset.data) fail text
\* decoding is materialized without an error, into a record that has no asset
\* key at all, in basic and in extended mode, and still has all its
\* non-payload fields.
C11_UndecodablePayloadDropsAsset ==
    (fmtOut.done /\ UndecodablePayload(fmtIn.row)) =>
        /\ ~fmtOut.hasAsset
        /\ DOMAIN fmtOut.asset = {}
        /\ DOMAIN fmtOut.cols = (DOMAIN fmtIn.row) \ PayloadColumns

\* the entries of a list that are truthy, as the indices they are at
TruthyAt(l) == {i \in DOMAIN l : Truthy(l[i])}

\* the index of the k-th truthy entry of a list
KthTruthy(l, k) ==
    CHOOSE i \in TruthyAt(l) : Cardinality({j \in TruthyAt(l) : j <= i}) = k

C13_DataLikeBoundAsBytes ==
    (call.op \in ReadOps /\ Len(adapterLog) = 1) =>
        \A g \in DOMAIN adapterLog[1].params.parsedFilters.groups :
            "data_like" \in DOMAIN adapterLog[1].params.parsedFilters.groups[g] =>
                adapterLog[1].params.parsedFilters.groups[g]["data_like"].t # "str"

(***************************************************************************)
(* Chain.bootstrap and Chain.cleanup                                       *)
(***************************************************************************)
\* the statements of the try block of bootstrap that can throw, in order; the
\* last one logs 'Modules ready and launched' and assigns this.scope
TrySteps ==
    <<"createCacheComponent", "createStorageComponent", "createSystemComponent",
      "genesisBlock", "lookupPeerIPs", "bootstrapStorage", "bootstrapCache",
      "createBus", "initLogicStructure", "initModules", "createSocketCluster",
      "attachSwagger", "bindModules", "BlockReward", "bind", "listen", "scope">>

\* the step bootstrap is about to run
NextStep(c) == TrySteps[Len(c.ran) + 1]

\* a step of the try block returns
StepDone(c, step) ==
    [c EXCEPT !.ran = Append(@, step),
              !.bindSent = @ \/ step = "bind",
              !.webSocket = IF step = "createSocketCluster" THEN "created"
                            ELSE IF step = "listen" THEN "listening" ELSE @,
              !.scope = IF step = "scope" THEN "scope" ELSE @,
              !.pc = IF step = "scope" THEN "ready" ELSE @]

\* catch (error): logger.fatal, then process.emit('cleanup', error)
CatchWithoutCleanup(c, step) ==
    [c EXCEPT !.ran = Append(@, step), !.failedAt = step, !.pc = "failed"]
Catch(c, step) ==
    [c EXCEPT !.ran = Append(@, step), !.failedAt = step, !.pc = "failed",
              !.cleanupEvents = Append(@, step)]

\* Chain.cleanup(code, error): this.scope is destructured, the socket is
\* destroyed, then components.map is called on the components object
CleanupDone(c) ==
    IF c.scope = "null" THEN [c EXCEPT !.cleanup = "TypeError"]
    ELSE [c EXCEPT !.webSocket = "destroyed", !.cleanup = "TypeError"]

InitChain ==
    /\ store = <<>>
    /\ defaultFilters = EmptyObject
    /\ defaultOptions \in {o \in DefaultOptionChoices : o.sort = SortFalse}
    /\ call = NoCall
    /\ callerFilters = NoCall.filters
    /\ sortArg = <<>>
    /\ adapterLog = <<>>
    /\ result = Thrown("")
    /\ pager = PagerIdle
    /\ fmtIn = NoRow
    /\ fmtOut = NotFormatted
    /\ chain \in {ChainNew(g) : g \in BOOLEAN}

ChainFrame ==
    UNCHANGED <<store, defaultFilters, defaultOptions, call, callerFilters, sortArg,
                adapterLog, result, pager, fmtIn, fmtOut>>

\* one of the channel.invoke calls before the try block fails: bootstrap
\* rejects, outside the try
BootstrapConfigFails ==
    /\ chain.pc = "new"
    /\ chain' = [chain EXCEPT !.pc = "rejected"]
    /\ ChainFrame

\* the configurations arrive, the loggers are created and the last commit is
\* looked up (a failure of git leaves it '')
BootstrapStart ==
    /\ chain.pc = "new"
    /\ \E sameLogFile \in BOOLEAN, commit \in {"", "commit"} :
          chain' = [chain EXCEPT !.pc = "try",
                                 !.logger = "logger",
                                 !.dbLogger = IF sameLogFile THEN "logger" ELSE "dbLogger",
                                 !.lastCommit = commit]
    /\ ChainFrame

\* the next step of the try block returns; the genesis block check passes
\* only with a genesis block
BootstrapStep ==
    /\ chain.pc = "try"
    /\ NextStep(chain) = "genesisBlock" => chain.genesisBlock
    /\ chain' = StepDone(chain, NextStep(chain))
    /\ ChainFrame

\* the next step of the try block throws; the genesis block check throws
\* only without a genesis block
BootstrapStepThrows ==
    /\ chain.pc = "try"
    /\ NextStep(chain) = "genesisBlock" => ~chain.genesisBlock
    /\ chain' = Catch(chain, NextStep(chain))
    /\ ChainFrame

\* cleanup is called on the module after bootstrap ended
ChainCleanup ==
    /\ chain.pc \in {"failed", "ready"}
    /\ chain.cleanup = "none"
    /\ chain' = CleanupDone(chain)
    /\ ChainFrame

NextChain ==
    \/ BootstrapConfigFails
    \/ BootstrapStart
    \/ BootstrapStep
    \/ BootstrapStepThrows
    \/ ChainCleanup

SpecChain == InitChain /\ [][NextChain]_vars

\* the initialization steps the claim names, in the order it names them
ClaimedSteps ==
    <<"bootstrapStorage", "bootstrapCache", "createBus", "initLogicStructure",
      "initModules", "createSocketCluster", "attachSwagger", "bind", "listen",
      "scope">>

ClaimedRan == SelectSeq(chain.ran, LAMBDA step : step \in Range(ClaimedSteps))

\* C14: bootstrap runs its initialization steps strictly in order; when a
\* step fails no later step runs, 'bind' is not sent after a failure before
\* it, this.scope stays null and exactly one 'cleanup' event carrying the
\* error is emitted; this.scope is non-null only after every step, listen
\* included, has succeeded.
C14_BootstrapInOrder ==
    /\ ClaimedRan = SubSeq(ClaimedSteps, 1, Len(ClaimedRan))
    /\ chain.pc = "failed" =>
          /\ chain.ran # <<>>
          /\ chain.ran[Len(chain.ran)] = chain.failedAt
          /\ chain.scope = "null"
          /\ chain.cleanupEvents = <<chain.failedAt>>
          /\ chain.bindSent =>
                \E i \in 1..(Len(chain.ran) - 1) : chain.ran[i] = "bind"
    /\ chain.pc # "failed" => chain.cleanupEvents = <<>> /\ chain.failedAt = ""
    /\ chain.scope # "null" =>
          /\ chain.pc = "ready"
          /\ chain.ran = TrySteps
          /\ chain.bindSent
          /\ chain.webSocket \in {"listening", "destroyed"}

C14_Witness ==
    /\ chain.pc = "failed"
    /\ chain.failedAt = "listen"
    /\ chain.bindSent
    /\ chain.scope = "null"
    /\ chain.cleanupEvents = <<"listen">>

====
